---- MODULE Spec2Model ----
(***************************************************************************)
(* Model of the instance orchestration engine of Linux-Coop:               *)
(*   src/src/services/instance.py  (InstanceService)                       *)
(*                                                                         *)
(* One run of the service is modelled: validate_dependencies, then         *)
(* launch_instances (host checks, _create_instances, the CPU core          *)
(* partition, one _launch_single_instance per created instance), then      *)
(* monitor_and_wait; terminate_all may run as an interrupt handler between *)
(* any two steps, and a spawned process may exit at any time.              *)
(*                                                                         *)
(* The GameProfile that instance.py reads (use_gamescope, disable_bwrap,   *)
(* selected_players, player_configs, apply_dxvk_vkd3d, winetricks_verbs,   *)
(* is_native) is an input of the run: it is drawn in Init.  The class in   *)
(* src/models/profile.py is a revision without most of these fields, so    *)
(* the profile is modelled by what instance.py reads of it.  exe_path is a *)
(* required Path of a validated profile and a Path is always truthy, so    *)
(* the two `if not profile.exe_path` returns (lines 36, 221) are never     *)
(* taken.  Lines 94 and 103-105 build log messages and are modelled as     *)
(* diagnostics: line 94 calls profile.effective_num_players() and line 103 *)
(* reads it without a call (in the revision of profile.py it is a          *)
(* property, for which the call of line 94 would raise TypeError).         *)
(*                                                                         *)
(* What the host answers (shutil.which, the Proton lookup, the dependency  *)
(* manager, the filesystem, subprocess.Popen, os.kill) is read when the    *)
(* code reads it and is drawn at that step.                                *)
(***************************************************************************)
EXTENDS Integers, Sequences, FiniteSets, TLC

(* ---------------------------------------------------------------- bounds *)
\* Largest len(profile.player_configs) of a drawn profile.
MaxPlayers == 3
\* Largest len(profile.player_configs) of a profile drawn with every
\* combination of its switches; a larger profile is drawn with ScenarioSwitches.
MaxSwitchPlayers == 2
\* psutil.cpu_count(logical=True) of the host of a run in Spec.
HostCores == 2
\* Largest core count and instance count drawn for the partition alone.
MaxPartCores == 12
MaxPartInstances == 6
\* Largest len(profile.game_args) drawn for the command builder.
MaxArgsLen == 3
\* Most calls of the filesystem isolation builder on one instance directory.
MaxMirrorRuns == 2
\* Seconds the clock of the cache advances in one step, and the latest time.
TickSeconds == 150
MaxTime == 450

VARIABLES
    profile,           \* the GameProfile handed to launch_instances
    cpu_count,         \* self.cpu_count (instance.py:24)
    pc,                \* position of the control thread in the run
    error,             \* exception that unwound to the caller of the run, or "none"
    which_seen,        \* per command: what shutil.which answered in this run
    proton,            \* what find_proton_path answered in this run
    base_dirs,         \* LOG_DIR and PREFIX_BASE_DIR created (instance.py:61-66)
    player_idx,        \* loop variable i of _create_instances (0-based)
    prefix_dirs,       \* instance numbers whose prefix_dir has been created
    prep_calls,        \* per player: calls made on the dependency manager
    instances,         \* the list returned by _create_instances
    core_assignments,  \* the core lists of launch_instances, before ",".join
    launch_idx,        \* loop variable i of the launch loop (0-based)
    attempted,         \* instance numbers handed to _launch_single_instance, in order
    prep_failed,       \* instance numbers whose dependency manager call raised
    spawn_failed,      \* instance numbers whose open or Popen raised
    symlinked_exe,     \* the mirrored executable of the instance being launched, or "none"
    new_pid,           \* process.pid of a Popen not yet registered, or 0
    next_pid,          \* the pid the host gives to the next created process
    pids,              \* self.pids, the PID registry
    proc,              \* per created process: "running", "killed", "zombie" or "dead"
    alive_pids,        \* local of _is_any_process_running between read and write-back
    term_removed,      \* pids terminate_all removed from the registry
    last_kill          \* the pids the latest terminate_all called os.kill on, in order

\* What one call of a builder of _launch_single_instance reads and returns.
VARIABLES
    player_config,        \* profile.player_configs[instance_idx]: its device paths
    dev_stat,             \* per device path of the host: "absent", "file" or "char"
    game_args,            \* profile.game_args, a string as its characters
    is_splitscreen_mode,  \* profile.is_splitscreen_mode
    device_info,          \* the dict returned by _validate_input_devices
    launch_device_info,   \* device_info of _launch_single_instance (line 234)
    cmd,                  \* the argv returned by _build_command
    host_env,             \* os.environ of the orchestrator process
    env_vars,             \* profile.env_vars
    steam_root,           \* steam_root of launch_instances, "" for None
    env,                  \* the dict returned by _prepare_environment
    mirror,               \* per path of the install tree: what is at its mirror path
    mirror_before,        \* mirror as the latest call of the builder found it
    mirror_error,         \* what the latest call of the builder raised, or "none"
    link_failed,          \* the files whose symlink_to failed in the latest call
    mirror_runs           \* calls of the builder made so far

\* The process-wide ProfileCache (cache.py) and what it reads of the host.
VARIABLES
    path_cache,         \* _path_cache: path string -> cached result of exists()
    profile_cache,      \* _profile_cache: profile key -> cached profile
    cache_timestamps,   \* _cache_timestamps: key -> time of the latest write
    now,                \* time.time(), in seconds
    fs_exists,          \* per path of the host: Path.exists()
    cache_result,       \* what the latest call returned or raised
    profile_set_at      \* per profile key: time of its latest set_profile

run_vars == << profile, cpu_count, pc, error, which_seen, proton, base_dirs,
               player_idx, prefix_dirs, prep_calls, instances, core_assignments,
               launch_idx, attempted, prep_failed, spawn_failed, symlinked_exe,
               new_pid, next_pid, pids, proc, alive_pids, term_removed, last_kill >>

run_except_pc == << profile, cpu_count, error, which_seen, proton, base_dirs,
                    player_idx, prefix_dirs, prep_calls, instances,
                    core_assignments, launch_idx, attempted, prep_failed,
                    spawn_failed, symlinked_exe, new_pid, next_pid, pids, proc,
                    alive_pids, term_removed, last_kill >>

command_vars == << player_config, dev_stat, game_args, is_splitscreen_mode,
                   device_info, launch_device_info, cmd >>

environment_vars == << host_env, env_vars, steam_root, env >>

mirror_vars == << mirror, mirror_before, mirror_error, link_failed, mirror_runs >>

builder_vars == << command_vars, environment_vars, mirror_vars >>

cache_vars == << path_cache, profile_cache, cache_timestamps, now, fs_exists,
                 cache_result, profile_set_at >>

vars == << run_vars, builder_vars, cache_vars >>

(* ------------------------------------------------------------- helpers *)
Range(s) == { s[k] : k \in 1..Len(s) }

NoDuplicates(s) == \A a, b \in 1..Len(s) : a # b => s[a] # s[b]

\* [x for x in s if keep(x)]
RECURSIVE Filter(_, _)
Filter(s, keep) ==
    IF s = << >> THEN << >>
    ELSE IF Head(s) \in keep THEN << Head(s) >> \o Filter(Tail(s), keep)
         ELSE Filter(Tail(s), keep)

(* ------------------------------------------------------ CPU partition *)
\* instance.py:82-85: every instance gets cores_per_instance cores, one more
\* while remaining_cores is positive.
num_cores_for_instance(cores_per_instance, remaining_cores) ==
    IF remaining_cores > 0 THEN cores_per_instance + 1 ELSE cores_per_instance

\* Mutant of remaining_after: the extra core is handed out but never counted.
remaining_after_not_counted(remaining_cores) == remaining_cores

\* instance.py:83-85: remaining_cores after one instance.
remaining_after(remaining_cores) ==
    IF remaining_cores > 0 THEN remaining_cores - 1 ELSE remaining_cores

\* instance.py:88-90: cores_list of one instance, the core numbers before str().
cores_list(current_core_start, n) == [ j \in 1..n |-> current_core_start + (j - 1) ]

\* instance.py:81-92: the loop over range(num_instances), from iteration i on.
RECURSIVE assign_cores(_, _, _, _, _)
assign_cores(i, num_instances, cores_per_instance, remaining_cores, current_core_start) ==
    IF i >= num_instances THEN << >>
    ELSE LET n == num_cores_for_instance(cores_per_instance, remaining_cores)
         IN  << cores_list(current_core_start, n) >>
             \o assign_cores(i + 1, num_instances, cores_per_instance,
                             remaining_after(remaining_cores), current_core_start + n)

\* instance.py:76-92: core_assignments for cpu_count C and N instances (N >= 1).
compute_core_assignments(C, N) == assign_cores(0, N, C \div N, C % N, 0)

(* ------------------------------------------------------- the run's inputs *)
\* The commands shutil.which is asked about: the fixed list of
\* validate_dependencies and the two conditional commands of launch_instances.
REQUIRED_COMMANDS == << "required_1", "required_2" >>

Commands == Range(REQUIRED_COMMANDS) \cup { "gamescope", "bwrap" }

Players == 1..MaxPlayers

\* The fields of GameProfile that the run reads; player_count is
\* len(player_configs) and winetricks_verbs says whether the list is non-empty.
AllProfiles ==
    [ player_count     : 1..MaxPlayers,
      selected_players : SUBSET Players,
      use_gamescope    : BOOLEAN,
      disable_bwrap    : BOOLEAN,
      is_native        : BOOLEAN,
      apply_dxvk_vkd3d : BOOLEAN,
      winetricks_verbs : BOOLEAN ]

\* The switches of the end-to-end scenario: a non-native game under the
\* compositor and the sandbox, with the runtime libraries applied.
ScenarioSwitches(p) ==
    /\ p.use_gamescope
    /\ ~p.disable_bwrap
    /\ ~p.is_native
    /\ p.apply_dxvk_vkd3d
    /\ ~p.winetricks_verbs

\* The profiles a run is drawn from.
Profiles ==
    { p \in AllProfiles : p.player_count > MaxSwitchPlayers => ScenarioSwitches(p) }

no_calls == [ initialize_prefix |-> 0, apply_dxvk_vkd3d |-> 0, apply_winetricks |-> 0 ]

\* str(n) of a non-negative int: its decimal digits.
Digit == << "0", "1", "2", "3", "4", "5", "6", "7", "8", "9" >>

RECURSIVE str_int(_)
str_int(n) ==
    IF n < 10 THEN Digit[n + 1]
    ELSE str_int(n \div 10) \o Digit[(n % 10) + 1]

\* profile.game_name, the sanitized name of the game of the run.
game_name == "game"

\* Config.get_prefix_base_dir(game_name) and Config.LOG_DIR.
get_prefix_base_dir(name) == "PREFIX_BASE_DIR/" \o name

LOG_DIR == "LOG_DIR"

\* Mutant of prefix_dir: the directory is named after the game only.
prefix_dir_of_game(instance_num) == get_prefix_base_dir(game_name) \o "/instance"

\* instance.py:126: prefix_dir of the instance.
prefix_dir(instance_num) ==
    get_prefix_base_dir(game_name) \o "/instance_" \o str_int(instance_num)

\* instance.py:127: log_file of the instance.
log_file(instance_num) ==
    LOG_DIR \o "/" \o game_name \o "_instance_" \o str_int(instance_num) \o ".log"

\* instance.py:143-149: GameInstance(instance_num=..., prefix_dir=...,
\* log_file=...); pid is None (0) until a spawn sets it.
GameInstance(instance_num) ==
    [ instance_num |-> instance_num,
      prefix_dir   |-> prefix_dir(instance_num),
      log_file     |-> log_file(instance_num),
      pid          |-> 0 ]

\* The device paths of the host that a player configuration may name.
MousePath == "/dev/input/event3"

KeyboardPath == "/dev/input/event5"

JoystickPath == "/dev/input/js0"

HostDevicePaths == { MousePath, KeyboardPath, JoystickPath }

\* What is at a device path: nothing, something that is not a character
\* device, a character device.
DevStats == { "absent", "file", "char" }

\* A PlayerInstanceConfig as the builders read it.  A field that is None is
\* read like the empty string (both are falsy at lines 357, 368, 378, 487).
PlayerConfigs ==
    [ MOUSE_EVENT_PATH    : { "", " ", MousePath },
      KEYBOARD_EVENT_PATH : { "", " ", KeyboardPath },
      PHYSICAL_DEVICE_ID  : { "", " ", JoystickPath },
      AUDIO_DEVICE_ID     : { "", "alsa_output.usb" } ]

\* The paths a player configuration names.
configured_paths(pcfg) ==
    { pcfg.MOUSE_EVENT_PATH, pcfg.KEYBOARD_EVENT_PATH, pcfg.PHYSICAL_DEVICE_ID }
        \cap HostDevicePaths

\* What can be at the device paths of the host: a path that no player
\* configuration names is never read.
DeviceStates(pcfg) ==
    { st \in [ HostDevicePaths -> DevStats ] :
        \A d \in HostDevicePaths \ configured_paths(pcfg) : st[d] = "absent" }

ArgChars == { "a", " " }

\* The strings of at most n characters, each as the sequence of its characters.
Strings(n) == UNION { [ 1..k -> ArgChars ] : k \in 0..n }

no_player_config ==
    [ MOUSE_EVENT_PATH |-> "", KEYBOARD_EVENT_PATH |-> "",
      PHYSICAL_DEVICE_ID |-> "", AUDIO_DEVICE_ID |-> "" ]

no_device_info ==
    [ has_dedicated_mouse |-> FALSE, mouse_path_str_for_instance |-> "",
      has_dedicated_keyboard |-> FALSE, keyboard_path_str_for_instance |-> "",
      audio_device_id_for_instance |-> "", should_add_grab_flags |-> FALSE ]

\* _build_command has not been called.
InitCommand ==
    /\ player_config = no_player_config
    /\ dev_stat = [ d \in HostDevicePaths |-> "absent" ]
    /\ game_args = << >>
    /\ is_splitscreen_mode = FALSE
    /\ device_info = no_device_info
    /\ launch_device_info = no_device_info
    /\ cmd = << >>

\* A dict of environment variables is a function from the keys it holds.
no_env == [ k \in {} |-> "" ]

\* The variables that the orchestrator may have inherited, and those that a
\* profile may override.
InheritedKeys ==
    { "PATH", "PYTHONHOME", "PYTHONPATH", "WINEPREFIX", "PROTON_NO_ESYNC",
      "PROTON_NO_FSYNC" }

OverrideKeys ==
    { "PATH", "PYTHONHOME", "WINEPREFIX", "STEAM_COMPAT_DATA_PATH",
      "PROTON_NO_ESYNC", "PROTON_NO_FSYNC" }

\* The dicts that give value to some of keys.
Dicts(keys, value) == UNION { [ K -> { value } ] : K \in SUBSET keys }

\* _prepare_environment has not been called.
InitEnvironment ==
    /\ host_env = no_env
    /\ env_vars = no_env
    /\ steam_root = ""
    /\ env = no_env

\* The install tree of the game: original_game_path holds the executable, a
\* second file and a directory with one file.
InstallDirs == { "data" }

ExePath == "game.exe"

InstallFiles == { ExePath, "readme.txt", "data/assets.pak" }

InstallItems == InstallDirs \cup InstallFiles

\* item.parent relative to original_game_path; "" is the root.
parent_of(item) == IF item = "data/assets.pak" THEN "data" ELSE ""

\* The items in the orders rglob("*") may give them: the entries of the root
\* in any order, then the entries of its directory.
RglobOrders ==
    { << a, b, c, "data/assets.pak" >> :
        a, b, c \in { x \in InstallItems : parent_of(x) = "" } }
    \cap { o \in [ 1..4 -> InstallItems ] : \A i, j \in 1..4 : i # j => o[i] # o[j] }

\* What can be at the mirror path of a directory: nothing, a directory,
\* something that is not a directory, a symlink to a directory, a symlink
\* whose target is gone.
DirStates == { "absent", "dir", "file", "link_dir", "link_broken" }

\* The filesystem isolation builder has not run: game_files is empty.
empty_mirror == [ item \in InstallItems |-> "absent" ]

InitMirror ==
    /\ mirror = empty_mirror
    /\ mirror_before = empty_mirror
    /\ mirror_error = "none"
    /\ link_failed = {}
    /\ mirror_runs = 0

\* The profile file handed to load_from_file and the executable it names.
ProfileFilePath == "/profiles/game.json"

ProfileExePath == "/games/game.exe"

\* The paths the cache is asked about, and the keys profiles are stored under.
Paths == { ProfileFilePath, ProfileExePath }

ProfileKeys == { ProfileFilePath }

\* cache.py:8-12 and 60: the global cache right after the module is imported.
InitCache ==
    /\ path_cache = << >>
    /\ profile_cache = << >>
    /\ cache_timestamps = << >>
    /\ now = 0
    /\ fs_exists = [ p \in Paths |-> TRUE ]
    /\ cache_result = "none"
    /\ profile_set_at = << >>

\* No builder has been called.
InitBuilders == InitCommand /\ InitEnvironment /\ InitMirror

\* InstanceService.__init__ (instance.py:23): no process, an empty registry.
InitProcesses ==
    /\ new_pid = 0
    /\ next_pid = 1
    /\ pids = << >>
    /\ proc = << >>
    /\ alive_pids = << >>
    /\ term_removed = {}
    /\ last_kill = << >>

\* The state of a run before its first call.
InitRun(players) ==
    /\ pc = "idle"
    /\ error = "none"
    /\ which_seen = [ c \in Commands |-> "unchecked" ]
    /\ proton = "unasked"
    /\ base_dirs = FALSE
    /\ player_idx = 0
    /\ prefix_dirs = {}
    /\ prep_calls = [ k \in players |-> no_calls ]
    /\ instances = << >>
    /\ core_assignments = << >>
    /\ launch_idx = 0
    /\ attempted = << >>
    /\ prep_failed = {}
    /\ spawn_failed = {}
    /\ symlinked_exe = "none"
    /\ InitProcesses

Init ==
    /\ profile \in Profiles
    /\ cpu_count = HostCores
    /\ InitRun(Players)
    /\ InitBuilders
    /\ InitCache

(* ------------------------------------------------ validate_dependencies *)
\* Mutant of checked_commands: the loop ends after its first command.
checked_commands_first_only(found) == { REQUIRED_COMMANDS[1] }

\* instance.py:29-31: the commands the loop asks about, given what which
\* answers: up to and including the first one that is missing.
checked_commands(found) ==
    { REQUIRED_COMMANDS[k] : k \in { n \in 1..Len(REQUIRED_COMMANDS) :
          \A m \in 1..(n - 1) : REQUIRED_COMMANDS[m] \in found } }

\* The caller of the service validates the dependencies first, launches once
\* they are validated, and monitors once launch_instances has returned.
caller_may_validate == pc = "idle"

caller_may_launch == pc = "validated"

after_launch_returns == "monitoring"

\* instance.py:26-32.
validate_dependencies ==
    /\ caller_may_validate
    /\ \E found \in SUBSET Range(REQUIRED_COMMANDS) :
         LET asked == checked_commands(found)
             ok == asked \subseteq found
         IN  /\ which_seen' = [ c \in Commands |->
                    IF c \in asked
                    THEN (IF c \in found THEN "found" ELSE "missing")
                    ELSE which_seen[c] ]
             /\ pc' = IF ok THEN "validated" ELSE "aborted"
             /\ error' = IF ok THEN "none" ELSE "DependencyError"
    /\ UNCHANGED << profile, cpu_count, proton, base_dirs, player_idx, prefix_dirs,
                    prep_calls, instances, core_assignments, launch_idx, attempted,
                    prep_failed, spawn_failed, symlinked_exe, new_pid, next_pid,
                    pids, proc, alive_pids, term_removed, last_kill >>
    /\ UNCHANGED << builder_vars, cache_vars >>

(* ------------------------------------------------------ launch_instances *)
\* instance.py:41-43: gamescope is looked up only when the profile uses it.
gamescope_checked(p) == p.use_gamescope

\* Mutant of bwrap_checked: bwrap is looked up whatever the profile says.
bwrap_checked_always(p) == TRUE

\* instance.py:47-49: bwrap is looked up unless the profile disables it.
bwrap_checked(p) == ~p.disable_bwrap

\* instance.py:54-58: the Proton lookup is made for a non-native game only.
proton_checked(p) == ~p.is_native

\* ProtonService.find_proton_path (instance.py:58): a runtime that cannot be
\* located is a dependency error.
find_proton_path_raises(found) == ~found

\* instance.py:36-66: the host checks of launch_instances, in code order; the
\* first failing one raises and nothing after it runs.
launch_instances_checks ==
    /\ caller_may_launch
    /\ \E gs_found, bw_found, pr_found \in BOOLEAN :
         LET gs_fail == gamescope_checked(profile) /\ ~gs_found
             bw_asked == ~gs_fail /\ bwrap_checked(profile)
             bw_fail == bw_asked /\ ~bw_found
             pr_asked == ~gs_fail /\ ~bw_fail /\ proton_checked(profile)
             pr_fail == pr_asked /\ find_proton_path_raises(pr_found)
             ok == ~gs_fail /\ ~bw_fail /\ ~pr_fail
         IN  /\ which_seen' = [ which_seen EXCEPT
                    !["gamescope"] = IF gamescope_checked(profile)
                                     THEN (IF gs_found THEN "found" ELSE "missing")
                                     ELSE @,
                    !["bwrap"] = IF bw_asked
                                 THEN (IF bw_found THEN "found" ELSE "missing")
                                 ELSE @ ]
             /\ proton' = IF pr_asked
                          THEN (IF pr_found THEN "found" ELSE "missing")
                          ELSE proton
             /\ base_dirs' = ok
             /\ pc' = IF ok THEN "creating" ELSE "aborted"
             /\ error' = IF ok THEN "none" ELSE "DependencyError"
    /\ UNCHANGED << profile, cpu_count, player_idx, prefix_dirs, prep_calls,
                    instances, core_assignments, launch_idx, attempted,
                    prep_failed, spawn_failed, symlinked_exe, new_pid, next_pid,
                    pids, proc, alive_pids, term_removed, last_kill >>
    /\ UNCHANGED << builder_vars, cache_vars >>

(* ----------------------------------------------------- _create_instances *)
\* instance.py:111-114: a DependencyManager exists for a non-native game whose
\* Proton path and Steam root were found.
has_dependency_manager(p, pr) == ~p.is_native /\ pr = "found"

\* Mutant of is_skipped: the selection is ignored.
is_skipped_never(p, instance_num) == FALSE

\* instance.py:122: the player of this instance number is skipped.
is_skipped(p, instance_num) ==
    p.selected_players # {} /\ instance_num \notin p.selected_players

\* instance.py:133-141: the dependency manager methods called for one instance,
\* in call order.
prep_steps(p, pr) ==
    IF has_dependency_manager(p, pr)
    THEN << "initialize_prefix" >>
         \o (IF p.apply_dxvk_vkd3d THEN << "apply_dxvk_vkd3d" >> ELSE << >>)
         \o (IF p.winetricks_verbs THEN << "apply_winetricks" >> ELSE << >>)
    ELSE << >>

\* DependencyManager: each of its methods may fail with a dependency error.
\* 0: every call returns; k: the k-th call raises.
preparer_outcomes(steps) == 0..Len(steps)

\* The calls made when the first `made` methods of steps are called.
calls_after(calls, steps, made) ==
    [ m \in DOMAIN calls |->
        calls[m] + Cardinality({ k \in 1..made : steps[k] = m }) ]

\* instance.py:117-150: one iteration of the loop over profile.player_configs.
\* A dependency manager method may raise DependencyError; nothing catches it in
\* _create_instances or in launch_instances.
create_instances_step ==
    /\ pc = "creating"
    /\ player_idx < profile.player_count
    /\ LET instance_num == player_idx + 1
           steps == prep_steps(profile, proton)
       IN  IF is_skipped(profile, instance_num)
           THEN /\ player_idx' = player_idx + 1
                /\ UNCHANGED << pc, error, prefix_dirs, prep_calls, instances,
                                prep_failed >>
           ELSE \E failing \in preparer_outcomes(steps) :
                  /\ prefix_dirs' = prefix_dirs \cup { instance_num }
                  /\ prep_calls' = [ prep_calls EXCEPT ![instance_num] =
                         calls_after(@, steps,
                                     IF failing = 0 THEN Len(steps) ELSE failing) ]
                  /\ IF failing = 0
                     THEN /\ instances' = Append(instances, GameInstance(instance_num))
                          /\ player_idx' = player_idx + 1
                          /\ UNCHANGED << pc, error, prep_failed >>
                     ELSE /\ pc' = "aborted"
                          /\ error' = "DependencyError"
                          /\ prep_failed' = prep_failed \cup { instance_num }
                          /\ UNCHANGED << instances, player_idx >>
    /\ UNCHANGED << profile, cpu_count, which_seen, proton, base_dirs,
                    core_assignments, launch_idx, attempted, spawn_failed,
                    symlinked_exe, new_pid, next_pid, pids, proc, alive_pids,
                    term_removed, last_kill >>
    /\ UNCHANGED << builder_vars, cache_vars >>

\* Mutant of after_create_pc: the launch loop is entered with no instance.
after_create_pc_no_return(num_instances) == "launching"

\* instance.py:72-74: with no instance launch_instances logs "No instances to
\* launch." and returns; otherwise it goes on to the launch loop.
after_create_pc(num_instances) ==
    IF num_instances = 0 THEN after_launch_returns ELSE "launching"

\* instance.py:68-96: _create_instances has returned; with no instance the
\* method returns, otherwise the core lists are computed and the launch loop
\* starts.
launch_instances_partition ==
    /\ pc = "creating"
    /\ player_idx = profile.player_count
    /\ LET num_instances == Len(instances)
       IN  /\ pc' = after_create_pc(num_instances)
           /\ IF num_instances = 0
              THEN UNCHANGED core_assignments
              ELSE core_assignments' = compute_core_assignments(cpu_count, num_instances)
    /\ launch_idx' = 0
    /\ UNCHANGED << profile, cpu_count, error, which_seen, proton, base_dirs,
                    player_idx, prefix_dirs, prep_calls, instances, attempted,
                    prep_failed, spawn_failed, symlinked_exe, new_pid, next_pid,
                    pids, proc, alive_pids, term_removed, last_kill >>
    /\ UNCHANGED << builder_vars, cache_vars >>

(* ----------------------------------------------- _launch_single_instance *)
\* What can be at the path of the mirrored executable: nothing, a regular
\* file, a symlink to the true executable, a symlink to another existing file,
\* a symlink whose target is gone.
MirrorStates == { "absent", "file", "link_ok", "link_other", "link_broken" }

\* Path.exists() follows symlinks.
path_exists(m) == m \in { "file", "link_ok", "link_other" }

\* Path.is_symlink().
path_is_symlink(m) == m \in { "link_ok", "link_other", "link_broken" }

\* Mutant of process_game_file: what is at the path is replaced by a new link.
process_game_file_relink(before, link_made) ==
    IF link_made THEN "link_ok" ELSE before

\* instance.py:196-203 for one file: a link is made only where
\* exists() is false; symlink_to succeeds (link_made) on a free path, raises
\* FileExistsError on a dangling link, and every failure is logged and skipped.
process_game_file(before, link_made) ==
    IF path_exists(before) THEN before
    ELSE IF before = "absent" /\ link_made THEN "link_ok"
    ELSE before

\* instance.py:207-212: the check that raises FileNotFoundError.
verify_executable_symlink(m) == path_exists(m) /\ path_is_symlink(m)

\* The launch loop moves to the next instance, or launch_instances returns
\* (instance.py:98-105).
next_launch_pc(idx) ==
    IF idx + 1 < Len(instances) THEN "launching" ELSE after_launch_returns

\* subprocess.Popen (instance.py:242): before it creates the child, the
\* constructor polls the children of earlier Popen objects that were dropped
\* unfinished, which reaps those that have exited since.
subprocess_cleanup(procs) ==
    [ p \in DOMAIN procs |-> IF procs[p] = "zombie" THEN "dead" ELSE procs[p] ]

\* The Popen object is dropped when _launch_single_instance returns
\* (instance.py:240-254; it is never waited on): a child that has exited by
\* then is reaped, any other is left to the next Popen call.
popen_dropped(state) == IF state = "zombie" THEN "dead" ELSE state

\* instance.py:216-249 and 253-254: the mirror of the game directory, its
\* verification, and subprocess.Popen.  A failed open (line 241) raises before
\* Popen is called, a failed Popen after it has polled the earlier children.  original_game_path is
\* profile.exe_path.parent (line 96), so relative_to (line 164) cannot raise.
\* A failed verification raises out of launch_instances (no handler at lines
\* 98-101); a failed open or Popen is caught and logged (lines 253-254).
launch_single_instance_spawn ==
    /\ pc = "launching"
    /\ launch_idx < Len(instances)
    /\ attempted' = Append(attempted, instances[launch_idx + 1].instance_num)
    /\ \E before \in MirrorStates, link_made, spawned, cleaned \in BOOLEAN :
         LET mirrored == process_game_file(before, link_made)
         IN  /\ symlinked_exe' = IF verify_executable_symlink(mirrored) /\ ~spawned
                                  THEN "none" ELSE mirrored
             /\ IF ~verify_executable_symlink(mirrored)
                THEN /\ ~cleaned
                     /\ pc' = "aborted"
                     /\ error' = "FileNotFoundError"
                     /\ UNCHANGED << launch_idx, new_pid, next_pid, proc,
                                     spawn_failed >>
                ELSE IF spawned
                THEN /\ new_pid' = next_pid
                     /\ next_pid' = next_pid + 1
                     /\ cleaned
                     /\ proc' = Append(subprocess_cleanup(proc), "running")
                     /\ pc' = "registering"
                     /\ UNCHANGED << error, launch_idx, spawn_failed >>
                ELSE /\ spawn_failed' = spawn_failed
                                        \cup { instances[launch_idx + 1].instance_num }
                     /\ pc' = next_launch_pc(launch_idx)
                     /\ launch_idx' = launch_idx + 1
                     /\ proc' = IF cleaned THEN subprocess_cleanup(proc) ELSE proc
                     /\ UNCHANGED << error, new_pid, next_pid >>
    /\ UNCHANGED << profile, cpu_count, which_seen, proton, base_dirs, player_idx,
                    prefix_dirs, prep_calls, instances, core_assignments,
                    prep_failed, pids, alive_pids, term_removed, last_kill >>
    /\ UNCHANGED << builder_vars, cache_vars >>

\* instance.py:249-252 and 101: the pid is appended to the registry and stored
\* in the instance, then the loop sleeps and goes on.
launch_single_instance_register ==
    /\ pc = "registering"
    /\ pids' = Append(pids, new_pid)
    /\ instances' = [ instances EXCEPT ![launch_idx + 1].pid = new_pid ]
    /\ proc' = [ proc EXCEPT ![new_pid] = popen_dropped(@) ]
    /\ new_pid' = 0
    /\ symlinked_exe' = "none"
    /\ pc' = next_launch_pc(launch_idx)
    /\ launch_idx' = launch_idx + 1
    /\ UNCHANGED << profile, cpu_count, error, which_seen, proton, base_dirs,
                    player_idx, prefix_dirs, prep_calls, core_assignments,
                    attempted, prep_failed, spawn_failed, next_pid,
                    alive_pids, term_removed, last_kill >>
    /\ UNCHANGED << builder_vars, cache_vars >>

(* -------------------------------------------------------- monitor_and_wait *)
\* psutil.pid_exists(pid): the pid is in the process table of the host; a
\* killed process is there until it exits, and an exited child is there, as a
\* zombie, until its parent waits for it.
pid_exists(p) == proc[p] # "dead"

\* Mutant of any_alive: off by one.
any_alive_more_than_one(alive) == Len(alive) > 1

\* instance.py:514: the value _is_any_process_running returns after a poll.
any_alive(alive) == Len(alive) > 0

\* instance.py:509-512: the registry is read; an empty registry ends
\* monitor_and_wait at once (lines 509-510, 518, 521).
is_any_process_running_read ==
    /\ pc = "monitoring"
    /\ IF pids = << >>
       THEN /\ pc' = "finished"
            /\ UNCHANGED alive_pids
       ELSE /\ alive_pids' = Filter(pids, { p \in Range(pids) : pid_exists(p) })
            /\ pc' = "poll_write"
    /\ UNCHANGED << profile, cpu_count, error, which_seen, proton, base_dirs,
                    player_idx, prefix_dirs, prep_calls, instances,
                    core_assignments, launch_idx, attempted, prep_failed,
                    spawn_failed, symlinked_exe, new_pid, next_pid, pids, proc,
                    term_removed, last_kill >>
    /\ UNCHANGED << builder_vars, cache_vars >>

\* instance.py:513-514 and 518-521: the survivors are written back; the loop
\* sleeps and polls again, or monitor_and_wait returns.
is_any_process_running_write ==
    /\ pc = "poll_write"
    /\ pids' = alive_pids
    /\ alive_pids' = << >>
    /\ pc' = IF any_alive(alive_pids) THEN "monitoring" ELSE "finished"
    /\ UNCHANGED << profile, cpu_count, error, which_seen, proton, base_dirs,
                    player_idx, prefix_dirs, prep_calls, instances,
                    core_assignments, launch_idx, attempted, prep_failed,
                    spawn_failed, symlinked_exe, new_pid, next_pid, proc,
                    term_removed, last_kill >>
    /\ UNCHANGED << builder_vars, cache_vars >>

(* ------------------------------------------------------------ terminate_all *)
\* What os.kill(pid, SIGKILL) can do (instance.py:530-537): the signal is
\* sent, ProcessLookupError for a process that is gone, or another error.
KillOutcomes(p) ==
    IF proc[p] = "dead" THEN { "sent", "ProcessLookupError", "error" }
    ELSE { "sent", "error" }

\* The process after os.kill: SIGKILL sent to a live process ends it, but not
\* within the call.
after_kill(state, outcome) ==
    IF outcome = "sent" /\ state = "running" THEN "killed" ELSE state

\* Mutant of kill_signals: ProcessLookupError ends the loop at the first
\* process that is gone.
kill_signals_until_gone(registry) ==
    LET gone == { k \in 1..Len(registry) : proc[registry[k]] = "dead" }
        last == IF gone = {} THEN Len(registry)
                ELSE CHOOSE k \in gone : \A j \in gone : k <= j
    IN  [ k \in 1..last |-> registry[k] ]

\* instance.py:529-537: one os.kill per entry of the registry, in order, every
\* outcome logged and the loop continued.
kill_signals(registry) == [ k \in 1..Len(registry) |-> registry[k] ]

\* instance.py:523-539, run from the caller or from its interrupt handler
\* between two steps of the run.
terminate_all ==
    /\ IF pids = << >>
       THEN /\ last_kill' = << >>
            /\ UNCHANGED << pids, proc, term_removed >>
       ELSE \E outcome \in [ Range(pids) -> { "sent", "ProcessLookupError", "error" } ] :
              /\ \A p \in Range(pids) : outcome[p] \in KillOutcomes(p)
              /\ last_kill' = kill_signals(pids)
              /\ proc' = [ p \in DOMAIN proc |->
                             IF p \in Range(pids) THEN after_kill(proc[p], outcome[p])
                             ELSE proc[p] ]
              /\ term_removed' = term_removed \cup Range(pids)
              /\ pids' = << >>
    /\ UNCHANGED << profile, cpu_count, pc, error, which_seen, proton, base_dirs,
                    player_idx, prefix_dirs, prep_calls, instances,
                    core_assignments, launch_idx, attempted, prep_failed,
                    spawn_failed, symlinked_exe, new_pid, next_pid, alive_pids >>
    /\ UNCHANGED << builder_vars, cache_vars >>

(* --------------------------------------------------------------- the host *)
\* A spawned process ends, by itself or after a SIGKILL.  It is a child of
\* the orchestrator (subprocess.Popen, instance.py:242), so it stays in the
\* process table as a zombie until the orchestrator waits for it.
process_exit ==
    /\ \E p \in DOMAIN proc :
         /\ proc[p] \in { "running", "killed" }
         /\ proc' = [ proc EXCEPT ![p] = "zombie" ]
    /\ UNCHANGED << profile, cpu_count, pc, error, which_seen, proton, base_dirs,
                    player_idx, prefix_dirs, prep_calls, instances,
                    core_assignments, launch_idx, attempted, prep_failed,
                    spawn_failed, symlinked_exe, new_pid, next_pid, pids,
                    alive_pids, term_removed, last_kill >>
    /\ UNCHANGED << builder_vars, cache_vars >>

(* ------------------------------------------------ _validate_input_devices *)
\* `s and s.strip()` (instance.py:357, 368, 378, 487): s is not None, not
\* empty and not made of whitespace only.
is_set(s) == s \notin { "", " " }

\* Path(s).exists() on the host.
device_exists(stat, path) == stat[path] # "absent"

\* Mutant of is_char_device: the kind of the file is not looked at.
is_char_device_any_file(stat, path) == TRUE

\* Path(s).is_char_device() on the host.
is_char_device(stat, path) == stat[path] = "char"

\* instance.py:359, 370, 489: the test that keeps a configured device.
is_valid_device(stat, path) ==
    is_set(path) /\ device_exists(stat, path) /\ is_char_device(stat, path)

\* Mutant of validate_input_devices: one valid device is enough for the grab.
validate_input_devices_grab_either(pcfg, stat) ==
    LET has_dedicated_mouse == is_valid_device(stat, pcfg.MOUSE_EVENT_PATH)
        has_dedicated_keyboard == is_valid_device(stat, pcfg.KEYBOARD_EVENT_PATH)
    IN  [ has_dedicated_mouse            |-> has_dedicated_mouse,
          mouse_path_str_for_instance    |-> pcfg.MOUSE_EVENT_PATH,
          has_dedicated_keyboard         |-> has_dedicated_keyboard,
          keyboard_path_str_for_instance |-> pcfg.KEYBOARD_EVENT_PATH,
          audio_device_id_for_instance   |->
              IF is_set(pcfg.AUDIO_DEVICE_ID) THEN pcfg.AUDIO_DEVICE_ID ELSE "",
          should_add_grab_flags |-> has_dedicated_mouse \/ has_dedicated_keyboard ]

\* instance.py:347-389.
validate_input_devices(pcfg, stat) ==
    LET has_dedicated_mouse == is_valid_device(stat, pcfg.MOUSE_EVENT_PATH)
        has_dedicated_keyboard == is_valid_device(stat, pcfg.KEYBOARD_EVENT_PATH)
    IN  [ has_dedicated_mouse            |-> has_dedicated_mouse,
          mouse_path_str_for_instance    |-> pcfg.MOUSE_EVENT_PATH,
          has_dedicated_keyboard         |-> has_dedicated_keyboard,
          keyboard_path_str_for_instance |-> pcfg.KEYBOARD_EVENT_PATH,
          audio_device_id_for_instance   |->
              IF is_set(pcfg.AUDIO_DEVICE_ID) THEN pcfg.AUDIO_DEVICE_ID ELSE "",
          should_add_grab_flags |-> has_dedicated_mouse /\ has_dedicated_keyboard ]

\* instance.py:477-505: the joystick is validated here, the mouse and the
\* keyboard are taken from device_info.
collect_device_paths(pcfg, info, stat) ==
    (IF is_valid_device(stat, pcfg.PHYSICAL_DEVICE_ID)
     THEN << pcfg.PHYSICAL_DEVICE_ID >> ELSE << >>)
    \o (IF info.has_dedicated_mouse
        THEN << info.mouse_path_str_for_instance >> ELSE << >>)
    \o (IF info.has_dedicated_keyboard
        THEN << info.keyboard_path_str_for_instance >> ELSE << >>)

(* ---------------------------------------------------------- _build_command *)
\* instance.py:468-469: '--dev-bind', path, path for every collected path.
RECURSIVE bind_args(_)
bind_args(paths) ==
    IF paths = << >> THEN << >>
    ELSE << "--dev-bind", Head(paths), Head(paths) >> \o bind_args(Tail(paths))

\* Mutant of device_input_namespace: with nothing to bind, the host's
\* /dev/input is left visible.
device_input_namespace_only_with_devices(paths) ==
    IF paths # << >> THEN << "--tmpfs", "/dev/input" >> \o bind_args(paths)
    ELSE << >>

\* instance.py:466-473: the empty /dev/input and the devices bound into it.
device_input_namespace(paths) ==
    IF paths # << >> THEN << "--tmpfs", "/dev/input" >> \o bind_args(paths)
    ELSE << "--tmpfs", "/dev/input" >>

\* instance.py:454-475.
build_bwrap_command(pcfg, info, stat) ==
    << "bwrap", "--dev-bind", "/", "/", "--proc", "/proc", "--tmpfs", "/tmp",
       "--cap-add", "all" >>
    \o device_input_namespace(collect_device_paths(pcfg, info, stat))

\* GameProfile.get_instance_dimensions(instance_num): (width, height).
get_instance_dimensions(instance_num) == << 960, 1080 >>

\* instance.py:391-425.
build_gamescope_command(splitscreen, should_add_grab_flags, instance_num) ==
    LET dims == get_instance_dimensions(instance_num)
        effective_width == str_int(dims[1])
        effective_height == str_int(dims[2])
    IN  << "gamescope", "-e", "-W", effective_width, "-H", effective_height,
           "-w", effective_width, "-h", effective_height >>
        \o << "-o", "999" >>
        \o << "-r", "999" >>
        \o (IF splitscreen THEN << "-b" >> ELSE << "-f", "--adaptive-sync" >>)
        \o (IF should_add_grab_flags THEN << "--grab", "--force-grab-cursor" >>
            ELSE << >>)

\* str.split() without argument, from the characters left and the word read
\* so far: the maximal runs of non-whitespace characters.
RECURSIVE split_from(_, _)
split_from(chars, word) ==
    IF chars = << >> THEN (IF word = "" THEN << >> ELSE << word >>)
    ELSE IF Head(chars) = " "
         THEN (IF word = "" THEN << >> ELSE << word >>) \o split_from(Tail(chars), "")
         ELSE split_from(Tail(chars), word \o Head(chars))

\* instance.py:430-432: game_specific_args; a None or empty game_args gives [].
game_specific_args(args) == split_from(args, "")

\* Mutant of base_cmd_prefix: the separator is left out.
base_cmd_prefix_no_separator(gamescope_cmd) == gamescope_cmd

\* instance.py:436-439.
base_cmd_prefix(gamescope_cmd) ==
    IF gamescope_cmd # << >> THEN gamescope_cmd \o << "--" >> ELSE << >>

\* instance.py:427-452; proton_path is "" for None.
build_base_game_command(p, proton_path, symlinked_exe_path, gamescope_cmd, args) ==
    IF p.is_native
    THEN base_cmd_prefix(gamescope_cmd)
         \o (IF symlinked_exe_path # ""
             THEN << symlinked_exe_path >> \o game_specific_args(args) ELSE << >>)
    ELSE base_cmd_prefix(gamescope_cmd)
         \o (IF proton_path # "" /\ symlinked_exe_path # ""
             THEN << proton_path, "run", symlinked_exe_path >>
                  \o game_specific_args(args)
             ELSE << >>)

\* Mutant of sandbox_enabled: the sandbox is built whatever the profile says.
sandbox_enabled_always(p) == TRUE

\* instance.py:334: the sandbox stage is built unless the profile disables it.
sandbox_enabled(p) == ~p.disable_bwrap

\* instance.py:316-345, given the dict of _validate_input_devices (line 321).
build_command(p, proton_path, pcfg, info, stat, args, splitscreen, instance_num, exe) ==
    LET gamescope_cmd ==
            IF p.use_gamescope
            THEN build_gamescope_command(splitscreen, info.should_add_grab_flags,
                                         instance_num)
            ELSE << >>
        base_cmd == build_base_game_command(p, proton_path, exe, gamescope_cmd, args)
        bwrap_cmd == IF sandbox_enabled(p)
                     THEN build_bwrap_command(pcfg, info, stat)
                     ELSE << >>
    IN  bwrap_cmd \o base_cmd

\* launch_instances (instance.py:54-58): proton_path is None for a native game
\* and the located runtime otherwise.
proton_path_of(pr) == IF pr = "found" THEN "proton" ELSE ""

\* instance.py:171: the path of the mirrored executable of the instance.
symlinked_exe_path_target(instance) == instance.prefix_dir \o "/game_files/game.exe"

\* One call of _build_command (instance.py:237) for the instance being launched.
build_command_call ==
    /\ pc = "build_command"
    /\ LET instance == instances[launch_idx + 1]
           info == validate_input_devices(player_config, dev_stat)
       IN  /\ device_info' = info
           /\ cmd' = build_command(profile, proton_path_of(proton), player_config,
                                   info, dev_stat, game_args, is_splitscreen_mode,
                                   instance.instance_num,
                                   symlinked_exe_path_target(instance))
    /\ pc' = "command_built"
    /\ UNCHANGED << profile, cpu_count, error, which_seen, proton, base_dirs,
                    player_idx, prefix_dirs, prep_calls, instances,
                    core_assignments, launch_idx, attempted, prep_failed,
                    spawn_failed, symlinked_exe, new_pid, next_pid, pids, proc,
                    alive_pids, term_removed, last_kill >>
    /\ UNCHANGED << player_config, dev_stat, game_args, is_splitscreen_mode,
                    launch_device_info >>
    /\ UNCHANGED << environment_vars, mirror_vars, cache_vars >>

\* instance.py:232-234: _launch_single_instance validates the devices of the
\* instance before it builds the environment and the command; the result is
\* kept in a local that nothing reads afterwards.
validate_input_devices_call ==
    /\ pc = "validate_devices"
    /\ launch_device_info' = validate_input_devices(player_config, dev_stat)
    /\ pc' = "devices_validated"
    /\ UNCHANGED run_except_pc
    /\ UNCHANGED << player_config, dev_stat, game_args, is_splitscreen_mode,
                    device_info, cmd >>
    /\ UNCHANGED << environment_vars, mirror_vars, cache_vars >>

\* The host between lines 234 and 237: devices are plugged, unplugged or
\* replaced while _prepare_environment runs (Path.exists and
\* Path.is_char_device at lines 359, 370, 489 read the host anew).
device_change ==
    /\ pc = "devices_validated"
    /\ dev_stat' \in DeviceStates(player_config)
    /\ pc' = "build_command"
    /\ UNCHANGED run_except_pc
    /\ UNCHANGED << player_config, game_args, is_splitscreen_mode, device_info,
                    launch_device_info, cmd >>
    /\ UNCHANGED << environment_vars, mirror_vars, cache_vars >>

(* ----------------------------------------------------- _prepare_environment *)
\* env[key] = value.
dict_set(d, key, value) ==
    [ k \in DOMAIN d \cup { key } |-> IF k = key THEN value ELSE d[k] ]

\* env.pop(key, None).
dict_pop(d, key) == [ k \in DOMAIN d \ { key } |-> d[k] ]

\* env.get(key, default).
dict_get(d, key, default) == IF key \in DOMAIN d THEN d[key] ELSE default

\* instance.py:267-281: the compatibility variables of a non-native game.
set_proton_variables(d, instance, root, proton_path, original_path) ==
    LET d1 == IF root # "" THEN dict_set(d, "STEAM_COMPAT_CLIENT_INSTALL_PATH", root)
              ELSE d
        d2 == dict_set(d1, "STEAM_COMPAT_DATA_PATH", instance.prefix_dir)
        d3 == dict_set(d2, "WINEPREFIX", instance.prefix_dir \o "/pfx")
    IN  IF proton_path # ""
        THEN dict_set(d3, "PATH", "proton_bin_dir" \o ":" \o original_path)
        ELSE d3

\* Mutant of apply_env_vars: a variable that is already set is kept.
apply_env_vars_keep_existing(d, overrides) ==
    [ k \in DOMAIN d \cup DOMAIN overrides |->
        IF k \in DOMAIN d THEN d[k] ELSE overrides[k] ]

\* instance.py:284-288: env[key] = value for every item of profile.env_vars.
apply_env_vars(d, overrides) ==
    [ k \in DOMAIN d \cup DOMAIN overrides |->
        IF k \in DOMAIN overrides THEN overrides[k] ELSE d[k] ]

\* instance.py:292-295: a synchronization default is set where the key is absent.
set_default(d, key, value) == IF key \notin DOMAIN d THEN dict_set(d, key, value) ELSE d

\* instance.py:256-298.
prepare_environment(inherited, instance, root, proton_path, p, overrides) ==
    LET original_path == dict_get(inherited, "PATH", "")
        cleaned == dict_pop(dict_pop(inherited, "PYTHONHOME"), "PYTHONPATH")
        computed == IF ~p.is_native
                    THEN set_proton_variables(cleaned, instance, root, proton_path,
                                              original_path)
                    ELSE cleaned
        overridden == apply_env_vars(computed, overrides)
    IN  IF ~p.is_native
        THEN set_default(set_default(overridden, "PROTON_NO_ESYNC", "0"),
                         "PROTON_NO_FSYNC", "0")
        ELSE overridden

\* One call of _prepare_environment (instance.py:236) for the instance being
\* launched.
prepare_environment_call ==
    /\ pc = "prepare_environment"
    /\ env' = prepare_environment(host_env, instances[launch_idx + 1], steam_root,
                                  proton_path_of(proton), profile, env_vars)
    /\ pc' = "environment_prepared"
    /\ UNCHANGED << profile, cpu_count, error, which_seen, proton, base_dirs,
                    player_idx, prefix_dirs, prep_calls, instances,
                    core_assignments, launch_idx, attempted, prep_failed,
                    spawn_failed, symlinked_exe, new_pid, next_pid, pids, proc,
                    alive_pids, term_removed, last_kill >>
    /\ UNCHANGED << host_env, env_vars, steam_root >>
    /\ UNCHANGED << command_vars, mirror_vars, cache_vars >>

(* ------------------------------- _create_game_directory_symlink_structure *)
\* Path.mkdir(parents=True, exist_ok=True) raises FileExistsError when the
\* path is taken by something that is not a directory.
mkdir_raises(before) == before \in { "file", "link_broken" }

\* Path.mkdir(parents=True, exist_ok=True) where it does not raise.
make_dir(before) == IF before = "absent" THEN "dir" ELSE before

\* symlink_to was called on a free path and failed (instance.py:202-203).
link_fails(before, link_made) == before = "absent" /\ ~link_made

\* Mutant of after_link_failure: a failed link ends the loop.
after_link_failure_stop(rest) == << >>

\* instance.py:202-203: the failure is logged and the loop goes on with the
\* items that are left.
after_link_failure(rest) == rest

\* instance.py:186-203: the loop over rglob("*"), from the items left; made
\* says for each file whether symlink_to would succeed on a free path.
RECURSIVE process_game_files(_, _, _, _)
process_game_files(items, m, made, failed) ==
    IF items = << >> THEN [ mirror |-> m, error |-> "none", failed |-> failed ]
    ELSE LET item == Head(items)
             par == parent_of(item)
             m1 == IF par # "" /\ ~mkdir_raises(m[par])
                   THEN [ m EXCEPT ![par] = make_dir(@) ] ELSE m
         IN  IF par # "" /\ mkdir_raises(m[par])
             THEN [ mirror |-> m, error |-> "FileExistsError", failed |-> failed ]
             ELSE IF item \in InstallDirs
             THEN IF mkdir_raises(m1[item])
                  THEN [ mirror |-> m1, error |-> "FileExistsError", failed |-> failed ]
                  ELSE process_game_files(Tail(items),
                                          [ m1 EXCEPT ![item] = make_dir(@) ],
                                          made, failed)
             ELSE IF link_fails(m1[item], made[item])
                  THEN process_game_files(after_link_failure(Tail(items)), m1, made,
                                          failed \cup { item })
                  ELSE process_game_files(Tail(items),
                           [ m1 EXCEPT ![item] = process_game_file(@, made[item]) ],
                           made, failed)

\* instance.py:153-176: the builder run on the mirror as it is; it returns,
\* or raises what _process_game_files or _verify_executable_symlink raised.
create_game_directory_symlink_structure_call ==
    /\ pc = "mirroring"
    /\ mirror_runs < MaxMirrorRuns
    /\ \E order \in RglobOrders, made \in [ InstallFiles -> BOOLEAN ] :
         LET r == process_game_files(order, mirror, made, {})
         IN  /\ mirror' = r.mirror
             /\ link_failed' = r.failed
             /\ mirror_error' =
                    IF r.error # "none" THEN r.error
                    ELSE IF verify_executable_symlink(r.mirror[ExePath]) THEN "none"
                    ELSE "FileNotFoundError"
             /\ symlinked_exe' = r.mirror[ExePath]
    /\ mirror_before' = mirror
    /\ mirror_runs' = mirror_runs + 1
    /\ UNCHANGED << profile, cpu_count, pc, error, which_seen, proton, base_dirs,
                    player_idx, prefix_dirs, prep_calls, instances,
                    core_assignments, launch_idx, attempted, prep_failed,
                    spawn_failed, new_pid, next_pid, pids, proc, alive_pids,
                    term_removed, last_kill >>
    /\ UNCHANGED << command_vars, environment_vars, cache_vars >>

(* ------------------------------------------------------------ ProfileCache *)
\* cache.py:12.
cache_ttl == 300

\* cache.py:21-22 and 36-37: the key has a timestamp younger than the TTL.
is_fresh(key) ==
    key \in DOMAIN cache_timestamps /\ now - cache_timestamps[key] < cache_ttl

\* cache.py:20-22: check_path_exists answers from the cache.
path_cache_hit(path) == path \in DOMAIN path_cache /\ is_fresh(path)

\* cache.py:14-29: the value check_path_exists returns.
check_path_exists(path) ==
    IF path_cache_hit(path) THEN path_cache[path] ELSE fs_exists[path]

\* cache.py:26-27: _path_cache after check_path_exists.
path_cache_after_check(path) ==
    IF path_cache_hit(path) THEN path_cache
    ELSE dict_set(path_cache, path, fs_exists[path])

\* cache.py:28: _cache_timestamps after check_path_exists.
timestamps_after_check(path) ==
    IF path_cache_hit(path) THEN cache_timestamps
    ELSE dict_set(cache_timestamps, path, now)

\* cache.py:31-39: the value get_profile returns.
get_profile(profile_key) ==
    IF profile_key \in DOMAIN profile_cache /\ is_fresh(profile_key)
    THEN profile_cache[profile_key] ELSE "None"

\* cache.py:49-52.
expired_keys == { key \in DOMAIN cache_timestamps :
                    now - cache_timestamps[key] >= cache_ttl }

\* cache.py:54-57: dict.pop(key, None) for every expired key.
without_expired(d) == [ key \in DOMAIN d \ expired_keys |-> d[key] ]

\* A call of check_path_exists (cache.py:14-29).
check_path_exists_call ==
    /\ \E path \in Paths :
         /\ cache_result' = IF check_path_exists(path) THEN "True" ELSE "False"
         /\ path_cache' = path_cache_after_check(path)
         /\ cache_timestamps' = timestamps_after_check(path)
    /\ UNCHANGED << profile_cache, now, fs_exists, profile_set_at >>
    /\ UNCHANGED << run_vars, builder_vars >>

\* A call of get_profile (cache.py:31-39).
get_profile_call ==
    /\ \E profile_key \in ProfileKeys : cache_result' = get_profile(profile_key)
    /\ UNCHANGED << path_cache, profile_cache, cache_timestamps, now, fs_exists,
                    profile_set_at >>
    /\ UNCHANGED << run_vars, builder_vars >>

\* A call of set_profile (cache.py:41-44).
set_profile_call ==
    /\ \E profile_key \in ProfileKeys :
         /\ profile_cache' = dict_set(profile_cache, profile_key, "GameProfile")
         /\ cache_timestamps' = dict_set(cache_timestamps, profile_key, now)
         /\ profile_set_at' = dict_set(profile_set_at, profile_key, now)
    /\ cache_result' = "None"
    /\ UNCHANGED << path_cache, now, fs_exists >>
    /\ UNCHANGED << run_vars, builder_vars >>

\* A call of clear_expired (cache.py:46-57).
clear_expired_call ==
    /\ path_cache' = without_expired(path_cache)
    /\ profile_cache' = without_expired(profile_cache)
    /\ cache_timestamps' = without_expired(cache_timestamps)
    /\ cache_result' = "None"
    /\ UNCHANGED << now, fs_exists, profile_set_at >>
    /\ UNCHANGED << run_vars, builder_vars >>

\* profile.py:43-51: the validator of exe_path, run when a GameProfile is
\* built with that path.
validate_exe_path_call ==
    /\ \E path \in Paths :
         /\ cache_result' = IF check_path_exists(path) THEN "accepted"
                             ELSE "ExecutableNotFoundError"
         /\ path_cache' = path_cache_after_check(path)
         /\ cache_timestamps' = timestamps_after_check(path)
    /\ UNCHANGED << profile_cache, now, fs_exists, profile_set_at >>
    /\ UNCHANGED << run_vars, builder_vars >>

\* profile.py:53-83: load_from_file of the profile file, which names the
\* executable ProfileExePath and a valid number of players.
load_from_file_call ==
    /\ IF get_profile(ProfileFilePath) # "None"
       THEN /\ cache_result' = get_profile(ProfileFilePath)
            /\ UNCHANGED << path_cache, profile_cache, cache_timestamps,
                            profile_set_at >>
       ELSE IF ~fs_exists[ProfileFilePath]
       THEN /\ cache_result' = "ProfileNotFoundError"
            /\ UNCHANGED << path_cache, profile_cache, cache_timestamps,
                            profile_set_at >>
       ELSE /\ path_cache' = path_cache_after_check(ProfileExePath)
            /\ IF ~check_path_exists(ProfileExePath)
               THEN /\ cache_result' = "ExecutableNotFoundError"
                    /\ cache_timestamps' = timestamps_after_check(ProfileExePath)
                    /\ UNCHANGED << profile_cache, profile_set_at >>
               ELSE /\ cache_result' = "GameProfile"
                    /\ profile_cache' =
                         dict_set(profile_cache, ProfileFilePath, "GameProfile")
                    /\ cache_timestamps' =
                         dict_set(timestamps_after_check(ProfileExePath),
                                  ProfileFilePath, now)
                    /\ profile_set_at' =
                         dict_set(profile_set_at, ProfileFilePath, now)
    /\ UNCHANGED << now, fs_exists >>
    /\ UNCHANGED << run_vars, builder_vars >>

\* time.time() between two calls.
clock_tick ==
    /\ now + TickSeconds <= MaxTime
    /\ now' = now + TickSeconds
    /\ UNCHANGED << path_cache, profile_cache, cache_timestamps, fs_exists,
                    cache_result, profile_set_at >>
    /\ UNCHANGED << run_vars, builder_vars >>

\* The host between two calls: a file is created or deleted.
filesystem_change ==
    /\ \E path \in Paths : fs_exists' = [ fs_exists EXCEPT ![path] = ~@ ]
    /\ UNCHANGED << path_cache, profile_cache, cache_timestamps, now,
                    cache_result, profile_set_at >>
    /\ UNCHANGED << run_vars, builder_vars >>

(* ------------------------------------------------------ the specification *)
Next ==
    \/ validate_dependencies
    \/ launch_instances_checks
    \/ create_instances_step
    \/ launch_instances_partition
    \/ launch_single_instance_spawn
    \/ launch_single_instance_register
    \/ is_any_process_running_read
    \/ is_any_process_running_write
    \/ terminate_all
    \/ process_exit

Spec == Init /\ [][Next]_vars

\* The run with what its scheduling guarantees: monitor_and_wait keeps polling
\* (instance.py:518-520: a poll every 0.5 s until it returns), and every
\* process that was spawned ends at some time.
SpecLive ==
    /\ Init
    /\ [][Next]_vars
    /\ WF_vars(is_any_process_running_read)
    /\ WF_vars(is_any_process_running_write)
    /\ WF_vars(process_exit)

\* The CPU partition alone: launch_instances right after _create_instances has
\* returned N instances of a native game, on a host of C logical cores.
PartInit ==
    /\ cpu_count \in 1..MaxPartCores
    /\ \E n \in 1..MaxPartInstances :
         /\ profile = [ player_count |-> n, selected_players |-> {},
                        use_gamescope |-> FALSE, disable_bwrap |-> TRUE,
                        is_native |-> TRUE, apply_dxvk_vkd3d |-> FALSE,
                        winetricks_verbs |-> FALSE ]
         /\ player_idx = n
         /\ prefix_dirs = 1..n
         /\ prep_calls = [ k \in 1..n |-> no_calls ]
         /\ instances = [ k \in 1..n |-> GameInstance(k) ]
    /\ pc = "creating"
    /\ error = "none"
    /\ which_seen = [ c \in Commands |->
           IF c \in Range(REQUIRED_COMMANDS) THEN "found" ELSE "unchecked" ]
    /\ proton = "unasked"
    /\ base_dirs = TRUE
    /\ core_assignments = << >>
    /\ launch_idx = 0
    /\ attempted = << >>
    /\ prep_failed = {}
    /\ spawn_failed = {}
    /\ symlinked_exe = "none"
    /\ InitProcesses
    /\ InitBuilders
    /\ InitCache

PartNext == launch_instances_partition

SpecPartition == PartInit /\ [][PartNext]_vars

\* The run inside _launch_single_instance for the only instance of a
\* one-player profile: the host checks passed, the instance was created and
\* prepared; mirrored_exe is "link_ok" once its mirror was built and verified.
RunLaunching(mirrored_exe) ==
    /\ cpu_count = HostCores
    /\ error = "none"
    /\ which_seen = [ c \in Commands |->
           IF c \in Range(REQUIRED_COMMANDS) THEN "found"
           ELSE IF c = "gamescope"
                THEN (IF gamescope_checked(profile) THEN "found" ELSE "unchecked")
                ELSE (IF bwrap_checked(profile) THEN "found" ELSE "unchecked") ]
    /\ proton = IF proton_checked(profile) THEN "found" ELSE "unasked"
    /\ base_dirs = TRUE
    /\ player_idx = 1
    /\ prefix_dirs = { 1 }
    /\ prep_calls = [ k \in Players |->
           IF k = 1
           THEN LET steps == prep_steps(profile,
                                 IF proton_checked(profile) THEN "found" ELSE "unasked")
                IN  calls_after(no_calls, steps, Len(steps))
           ELSE no_calls ]
    /\ instances = << GameInstance(1) >>
    /\ core_assignments = compute_core_assignments(HostCores, 1)
    /\ launch_idx = 0
    /\ attempted = << 1 >>
    /\ prep_failed = {}
    /\ spawn_failed = {}
    /\ symlinked_exe = mirrored_exe
    /\ InitProcesses

\* The profiles of one player, with every combination of the switches that
\* the builders read.
BuilderProfiles ==
    [ player_count     : { 1 },
      selected_players : { {} },
      use_gamescope    : BOOLEAN,
      disable_bwrap    : BOOLEAN,
      is_native        : BOOLEAN,
      apply_dxvk_vkd3d : { FALSE },
      winetricks_verbs : { FALSE } ]

\* The command builder alone: _build_command for every profile, player
\* configuration, state of the configured device paths and extra arguments.
CommandInit ==
    /\ profile \in BuilderProfiles
    /\ RunLaunching("link_ok")
    /\ pc = "build_command"
    /\ player_config \in PlayerConfigs
    /\ dev_stat \in [ HostDevicePaths -> DevStats ]
    /\ \A d \in HostDevicePaths \ configured_paths(player_config) :
           dev_stat[d] = "absent"
    /\ game_args \in Strings(MaxArgsLen)
    /\ is_splitscreen_mode \in BOOLEAN
    /\ device_info = no_device_info
    /\ launch_device_info = no_device_info
    /\ cmd = << >>
    /\ InitEnvironment
    /\ InitMirror
    /\ InitCache

CommandNext == build_command_call

SpecCommand == CommandInit /\ [][CommandNext]_vars

\* The cache alone: any sequence of its operations and of the two callers in
\* profile.py, while the clock advances and files come and go.
CacheInit ==
    /\ profile \in { p \in BuilderProfiles :
                      ~p.use_gamescope /\ p.disable_bwrap /\ p.is_native }
    /\ cpu_count = HostCores
    /\ InitRun(Players)
    /\ InitBuilders
    /\ path_cache = << >>
    /\ profile_cache = << >>
    /\ cache_timestamps = << >>
    /\ now = 0
    /\ fs_exists \in [ Paths -> BOOLEAN ]
    /\ cache_result = "none"
    /\ profile_set_at = << >>

CacheNext ==
    \/ check_path_exists_call
    \/ get_profile_call
    \/ set_profile_call
    \/ clear_expired_call
    \/ validate_exe_path_call
    \/ load_from_file_call
    \/ clock_tick
    \/ filesystem_change

SpecCache == CacheInit /\ [][CacheNext]_vars

\* The device resolutions of one launch: _launch_single_instance validates
\* the devices (line 234), the host may change, and _build_command validates
\* them again (line 321) and builds the argv.
DevicesInit ==
    /\ profile \in BuilderProfiles
    /\ RunLaunching("link_ok")
    /\ pc = "validate_devices"
    /\ player_config \in PlayerConfigs
    /\ dev_stat \in DeviceStates(player_config)
    /\ game_args = << >>
    /\ is_splitscreen_mode = FALSE
    /\ device_info = no_device_info
    /\ launch_device_info = no_device_info
    /\ cmd = << >>
    /\ InitEnvironment
    /\ InitMirror
    /\ InitCache

DevicesNext ==
    \/ validate_input_devices_call
    \/ device_change
    \/ build_command_call

SpecDevices == DevicesInit /\ [][DevicesNext]_vars

\* The environment builder alone: _prepare_environment for a native and a
\* non-native game, every inherited environment and every override map.
EnvironmentInit ==
    /\ profile \in { p \in BuilderProfiles : ~p.use_gamescope /\ p.disable_bwrap }
    /\ RunLaunching("link_ok")
    /\ pc = "prepare_environment"
    /\ host_env \in Dicts(InheritedKeys, "inherited")
    /\ env_vars \in Dicts(OverrideKeys, "override")
    /\ steam_root \in (IF profile.is_native THEN { "" } ELSE { "", "steam_root" })
    /\ env = no_env
    /\ InitCommand
    /\ InitMirror
    /\ InitCache

EnvironmentNext == prepare_environment_call

SpecEnvironment == EnvironmentInit /\ [][EnvironmentNext]_vars

\* A mirror that the filesystem allows: below a path that is not a
\* directory there is nothing.
consistent_mirror(m) ==
    \A item \in InstallItems :
        (parent_of(item) # "" /\ m[parent_of(item)] \notin { "dir", "link_dir" })
          => m[item] = "absent"

\* The filesystem isolation builder alone: called up to MaxMirrorRuns times
\* on the game_files directory of one instance, whatever an earlier run of
\* the program left there.
MirrorInit ==
    /\ profile \in { p \in BuilderProfiles :
                      ~p.use_gamescope /\ p.disable_bwrap /\ p.is_native }
    /\ RunLaunching("none")
    /\ pc = "mirroring"
    /\ mirror \in [ InstallItems -> DirStates \cup MirrorStates ]
    /\ \A d \in InstallDirs : mirror[d] \in DirStates
    /\ \A f \in InstallFiles : mirror[f] \in MirrorStates
    /\ consistent_mirror(mirror)
    /\ mirror_before = mirror
    /\ mirror_error = "none"
    /\ link_failed = {}
    /\ mirror_runs = 0
    /\ InitCommand
    /\ InitEnvironment
    /\ InitCache

MirrorNext == create_game_directory_symlink_structure_call

SpecMirror == MirrorInit /\ [][MirrorNext]_vars

(* ================================================================ claims *)
\* s[1] \o s[2] \o ... for a sequence of sequences.
RECURSIVE Flatten(_)
Flatten(ss) == IF ss = << >> THEN << >> ELSE Head(ss) \o Flatten(Tail(ss))

\* The players of the profile that the selection keeps, in ascending order.
SelectedNums ==
    { k \in 1..profile.player_count :
        profile.selected_players = {} \/ k \in profile.selected_players }

RECURSIVE Ascending(_)
Ascending(S) ==
    IF S = {} THEN << >>
    ELSE LET m == CHOOSE x \in S : \A y \in S : x <= y
         IN  << m >> \o Ascending(S \ { m })

InstanceNums == [ k \in 1..Len(instances) |-> instances[k].instance_num ]

\* launch_instances was entered, passed its host checks and has ended, by
\* returning or by an exception.
LaunchEnded == base_dirs /\ pc \in { "monitoring", "poll_write", "finished", "aborted" }

PartitionComputed == pc # "creating" /\ Len(instances) >= 1

(* C1: for C >= 1 logical cores and N >= 1 instances the core lists are N
   lists; list i (0-based) has C // N cores plus one exactly when i < C mod N;
   read in instance order they are the cores 0, 1, ..., C-1 in ascending
   order, so their union is {0..C-1}, no core appears twice and two lists
   differ in size by at most 1. *)
C1_CorePartition ==
    PartitionComputed =>
      LET C == cpu_count
          N == Len(instances)
          all == Flatten(core_assignments)
      IN  /\ Len(core_assignments) = N
          /\ \A i \in 1..N :
               Len(core_assignments[i])
                 = (C \div N) + (IF i - 1 < C % N THEN 1 ELSE 0)
          /\ all = [ k \in 1..C |-> k - 1 ]
          /\ Range(all) = 0..(C - 1)
          /\ NoDuplicates(all)
          /\ \A i, j \in 1..N :
               Len(core_assignments[i]) - Len(core_assignments[j]) \in { -1, 0, 1 }

\* Some instances get the extra core and some do not, and every list is non-empty.
C1_Witness ==
    /\ PartitionComputed
    /\ Len(instances) >= 3
    /\ cpu_count > Len(instances)
    /\ cpu_count % Len(instances) >= 2
    /\ Len(core_assignments[1]) > Len(core_assignments[Len(instances)])

(* C2: the instances created are exactly the selected players (all players
   for an empty selection), in ascending instance-number order, and
   launch_instances attempts to launch exactly those, in that order
   (stated for the runs in which no dependency preparation failed). *)
C2_Claim ==
    (LaunchEnded /\ prep_failed = {}) =>
      /\ InstanceNums = Ascending(SelectedNums)
      /\ attempted = InstanceNums

\* Nothing of any instance has been touched.
Untouched ==
    /\ prefix_dirs = {}
    /\ \A k \in DOMAIN prep_calls : prep_calls[k] = no_calls
    /\ instances = << >>
    /\ attempted = << >>
    /\ proc = << >>
    /\ pids = << >>

(* C3: a compositor or sandbox command that the profile enables and the host
   does not resolve, or a compatibility runtime that cannot be located,
   raises a dependency error with no instance directory created, no
   preparer call made, no process spawned and the registry unchanged; a
   command whose feature is disabled is never looked up, and a run that
   passes the checks has found every command it enables. *)
C3_ConditionalDependencies ==
    /\ ( \/ which_seen["gamescope"] = "missing"
         \/ which_seen["bwrap"] = "missing"
         \/ proton = "missing" )
       => (pc = "aborted" /\ error = "DependencyError" /\ ~base_dirs /\ Untouched)
    /\ ~profile.use_gamescope => which_seen["gamescope"] = "unchecked"
    /\ profile.disable_bwrap => which_seen["bwrap"] = "unchecked"
    /\ profile.is_native => proton = "unasked"
    /\ base_dirs =>
         /\ profile.use_gamescope => which_seen["gamescope"] = "found"
         /\ ~profile.disable_bwrap => which_seen["bwrap"] = "found"
         /\ ~profile.is_native => proton = "found"

\* The compositor is found, the sandbox tool is enabled and missing.
C3_Witness ==
    /\ profile.use_gamescope
    /\ which_seen["gamescope"] = "found"
    /\ ~profile.disable_bwrap
    /\ which_seen["bwrap"] = "missing"
    /\ pc = "aborted"

(* C4: a run goes from idle through validated dependencies and computed
   partitions to its launches: nothing of an instance is touched unless every
   command of the required list was found, the partition is computed before
   the first launch, and the first missing required command raises a
   dependency error that ends the run with nothing touched and no later
   command looked up. *)
C4_DependenciesFirst ==
    /\ (base_dirs \/ ~Untouched) =>
         \A c \in Range(REQUIRED_COMMANDS) : which_seen[c] = "found"
    /\ attempted # << >> => Len(core_assignments) = Len(instances)
    /\ \A k \in 1..Len(REQUIRED_COMMANDS) :
         which_seen[REQUIRED_COMMANDS[k]] = "missing" =>
           /\ pc = "aborted" /\ error = "DependencyError" /\ Untouched
           /\ \A j \in 1..(k - 1) : which_seen[REQUIRED_COMMANDS[j]] = "found"
           /\ \A c \in Commands \ { REQUIRED_COMMANDS[j] : j \in 1..k } :
                which_seen[c] = "unchecked"

\* The second required command is the first one missing.
C4_Witness ==
    /\ which_seen[REQUIRED_COMMANDS[1]] = "found"
    /\ which_seen[REQUIRED_COMMANDS[2]] = "missing"
    /\ pc = "aborted"

(* C5: a filesystem isolation error while launching instance i prevents only
   instance i from launching: every created instance after i is still
   attempted, and the processes of earlier instances stay registered. *)
C5_Claim ==
    (LaunchEnded /\ error = "FileNotFoundError") =>
      /\ attempted = InstanceNums
      /\ \A k \in 1..Len(instances) :
           instances[k].pid # 0 =>
             instances[k].pid \in Range(pids) \cup term_removed

(* C6: a process-creation failure for instance i is contained: instance i
   keeps no pid and adds nothing to the registry, and every created instance
   after i is still launched. *)
C6_Claim ==
    LaunchEnded =>
      \A k \in 1..Len(instances) :
        instances[k].instance_num \in spawn_failed =>
          /\ instances[k].pid = 0
          /\ Len(proc) <= Len(instances) - Cardinality(spawn_failed)
          /\ \A j \in (k + 1)..Len(instances) :
               instances[j].instance_num \in Range(attempted)

(* C7: a dependency error raised by the dependency preparer for instance i
   aborts only that instance's preparation: when other players are selected,
   the run is not aborted and their instances are still created. *)
C7_Claim ==
    (prep_failed # {} /\ SelectedNums \ prep_failed # {}) =>
      /\ pc # "aborted"
      /\ error = "none"
      /\ pc # "creating" => Range(InstanceNums) = SelectedNums \ prep_failed

\* What the dependency manager was asked to do for one prepared instance.
ExpectedCalls ==
    [ initialize_prefix |-> 1,
      apply_dxvk_vkd3d  |-> IF profile.apply_dxvk_vkd3d THEN 1 ELSE 0,
      apply_winetricks  |-> IF profile.winetricks_verbs THEN 1 ELSE 0 ]

C8_State ==
    /\ ~profile.is_native =>
         /\ \A k \in Range(InstanceNums) : prep_calls[k] = ExpectedCalls
         /\ \A k \in DOMAIN prep_calls :
              \A m \in DOMAIN no_calls : prep_calls[k][m] <= 1
    /\ \A k \in DOMAIN prep_calls : k \notin SelectedNums => prep_calls[k] = no_calls
    /\ proc # << >> => Range(InstanceNums) = SelectedNums

(* C8: for a non-native game, prefix initialization and each enabled optional
   setup step are invoked exactly once per created instance, never for a
   skipped player, and no invocation is made once the first process of the
   run has been spawned. *)
C8_PreparedOnceBeforeLaunch ==
    /\ []C8_State
    /\ [][ (proc' # << >>) => (prep_calls' = prep_calls) ]_vars

\* Two prepared instances, a skipped player, and a spawned process.
C8_Witness ==
    /\ ~profile.is_native
    /\ profile.apply_dxvk_vkd3d
    /\ Len(instances) >= 2
    /\ SelectedNums # 1..profile.player_count
    /\ proc # << >>
    /\ \A k \in Range(InstanceNums) : prep_calls[k].initialize_prefix = 1

(* C9: monitor_and_wait returns only with an empty registry, every process
   that was tracked being gone or having been removed by terminate_all. *)
C9_MonitorReturnsWhenAllGone ==
    pc = "finished" =>
      /\ pids = << >>
      /\ alive_pids = << >>
      /\ \A p \in DOMAIN proc : proc[p] = "dead" \/ p \in term_removed

\* Two processes were tracked; monitor_and_wait saw both gone without any
\* terminate_all.
C9_Witness ==
    /\ pc = "finished"
    /\ Len(proc) >= 2
    /\ term_removed = {}
    /\ \A p \in DOMAIN proc : proc[p] = "dead"

(* C10: terminate_all calls os.kill once for every pid of the registry, in
   order and whatever each call does, ends no process within the call, leaves
   the registry empty and the run where it was; on an empty registry it sends
   nothing and changes nothing. *)
C10_TerminateAll ==
    /\ []NoDuplicates(pids)
    /\ [][ terminate_all =>
             /\ pids' = << >>
             /\ last_kill' = pids
             /\ term_removed' = term_removed \cup Range(pids)
             /\ \A p \in DOMAIN proc : proc'[p] = "dead" => proc[p] = "dead"
             /\ DOMAIN proc' = DOMAIN proc
             /\ pc' = pc /\ error' = error
             /\ pids = << >> => (proc' = proc /\ term_removed' = term_removed) ]_vars

\* The registry was cleared although the first kill did nothing to its
\* process; the second process was killed.
C10_Witness ==
    /\ pids = << >>
    /\ Len(last_kill) = 2
    /\ proc[last_kill[1]] = "running"
    /\ proc[last_kill[2]] = "killed"

(* C11: terminate_all run from the interrupt handler between any two steps of
   launch_instances sends the kill signal to every process spawned by that
   point: each of them is in the registry or was signalled by an earlier
   terminate_all. *)
C11_Claim ==
    [][ (terminate_all /\ pc \in { "creating", "launching", "registering" }) =>
          \A p \in DOMAIN proc : p \in Range(last_kill') \cup term_removed ]_vars

\* The tokens of the sandbox stage and of the compositor stage.
SandboxTokens ==
    { "bwrap", "--dev-bind", "/", "--proc", "/proc", "--tmpfs", "/tmp",
      "--cap-add", "all", "/dev/input" } \cup HostDevicePaths

CompositorTokens ==
    { "gamescope", "-e", "-W", "-H", "-w", "-h", "-o", "-r", "-b", "-f",
      "--adaptive-sync", "--grab", "--force-grab-cursor", "960", "1080", "999" }

\* The characters chars[a..b] as one string.
RECURSIVE Chars(_, _, _)
Chars(chars, a, b) == IF a > b THEN "" ELSE chars[a] \o Chars(chars, a + 1, b)

\* The whitespace-separated words of a string: one per position that starts
\* a run of non-blank characters, up to the end of that run.
WordStarts(chars) ==
    { i \in 1..Len(chars) : chars[i] # " " /\ (i = 1 \/ chars[i - 1] = " ") }

WordEnd(chars, i) ==
    CHOOSE j \in i..Len(chars) :
        /\ \A k \in i..j : chars[k] # " "
        /\ (j = Len(chars) \/ chars[j + 1] = " ")

Words(chars) ==
    LET starts == Ascending(WordStarts(chars))
    IN  [ k \in 1..Len(starts) |-> Chars(chars, starts[k], WordEnd(chars, starts[k])) ]

\* The mirrored executable of the instance whose command was built.
BuiltExe == "PREFIX_BASE_DIR/game/instance_1/game_files/game.exe"

\* The base command that the profile asks for.
BaseCommand ==
    IF profile.is_native THEN << BuiltExe >> \o Words(game_args)
    ELSE << "proton", "run", BuiltExe >> \o Words(game_args)

(* C12: the argv of _build_command is the sandbox stage, then the compositor
   stage, then the separator, then the base command; a disabled stage
   contributes no argument (and the compositor's separator goes with it); the
   base command is the mirrored executable and the whitespace-split extra
   arguments for a native game, and the compatibility tool, 'run', the
   mirrored executable and the extra arguments otherwise. *)
C12_CommandShape ==
    pc = "command_built" =>
      LET nb == Len(BaseCommand)
          nh == Len(cmd) - nb
      IN  /\ nh >= 0
          /\ SubSeq(cmd, nh + 1, Len(cmd)) = BaseCommand
          /\ \E ns \in 0..nh :
               /\ \A k \in 1..ns : cmd[k] \in SandboxTokens
               /\ (ns = 0) <=> profile.disable_bwrap
               /\ ns > 0 => cmd[1] = "bwrap"
               /\ IF profile.use_gamescope
                  THEN /\ nh >= ns + 2
                       /\ cmd[ns + 1] = "gamescope"
                       /\ \A k \in (ns + 1)..(nh - 1) : cmd[k] \in CompositorTokens
                       /\ cmd[nh] = "--"
                  ELSE nh = ns

\* Both stages are enabled, the game is not native and has two extra arguments.
C12_Witness ==
    /\ pc = "command_built"
    /\ profile.use_gamescope /\ ~profile.disable_bwrap /\ ~profile.is_native
    /\ game_args = << "a", " ", "a" >>
    /\ Len(cmd) > 5
    /\ SubSeq(cmd, Len(cmd) - 4, Len(cmd)) = << "proton", "run", BuiltExe, "a", "a" >>

(* C13: with the sandbox disabled by the profile, no token of the sandbox
   stage is in the argv of _build_command, whatever devices are configured and
   valid. *)
C13_NoSandboxTokens ==
    (pc = "command_built" /\ profile.disable_bwrap) =>
      Range(cmd) \cap SandboxTokens = {}

\* The sandbox is disabled while the mouse and the joystick are valid devices.
C13_Witness ==
    /\ pc = "command_built"
    /\ profile.disable_bwrap
    /\ dev_stat[MousePath] = "char"
    /\ dev_stat[JoystickPath] = "char"
    /\ cmd # << >>

\* The device paths of the player configuration that are character devices.
ValidDevices == { d \in configured_paths(player_config) : dev_stat[d] = "char" }

\* The positions of the argv where the empty device-input namespace is mounted.
InputNamespaceAt ==
    { i \in 1..(Len(cmd) - 1) : cmd[i] = "--tmpfs" /\ cmd[i + 1] = "/dev/input" }

(* C14: with the sandbox enabled, the sandbox stage mounts an empty
   device-input namespace exactly once, after the bind of the root
   filesystem; the only paths bound after it are the valid devices of the
   instance, and with no valid device nothing is bound. *)
C14_InputNamespaceIsolated ==
    (pc = "command_built" /\ ~profile.disable_bwrap) =>
      /\ Cardinality(InputNamespaceAt) = 1
      /\ \A i \in InputNamespaceAt :
           /\ \A j \in 1..(Len(cmd) - 1) :
                (cmd[j] = "--dev-bind" /\ cmd[j + 1] = "/") => j < i
           /\ \A j \in (i + 2)..Len(cmd) :
                cmd[j] = "--dev-bind" =>
                  /\ j + 2 <= Len(cmd)
                  /\ cmd[j + 1] \in ValidDevices
                  /\ cmd[j + 2] = cmd[j + 1]
           /\ \A j \in 1..Len(cmd) : cmd[j] \in HostDevicePaths => j > i + 1
           /\ ValidDevices = {} =>
                \A j \in (i + 2)..Len(cmd) : cmd[j] \notin SandboxTokens
      /\ Range(cmd) \cap HostDevicePaths = ValidDevices

\* The sandbox is enabled and the only configured device is not a character
\* device: the namespace is mounted and nothing is bound into it.
C14_Witness ==
    /\ pc = "command_built"
    /\ ~profile.disable_bwrap
    /\ player_config.PHYSICAL_DEVICE_ID = JoystickPath
    /\ dev_stat[JoystickPath] = "file"
    /\ ValidDevices = {}
    /\ InputNamespaceAt # {}

\* The configured path is set and is a character device of the host.
IsValid(path) == path \in HostDevicePaths /\ dev_stat[path] = "char"

(* C15: a pointing, keyboard or joystick path that is empty, absent or not a
   character device is neither marked as dedicated nor bound into the
   sandbox, and the command is built all the same; the grab flag is set
   exactly when both the pointing device and the keyboard are valid. *)
C15_InvalidDevicesDropped ==
    pc = "command_built" =>
      /\ device_info.has_dedicated_mouse <=> IsValid(player_config.MOUSE_EVENT_PATH)
      /\ device_info.has_dedicated_keyboard
           <=> IsValid(player_config.KEYBOARD_EVENT_PATH)
      /\ device_info.should_add_grab_flags
           <=> (IsValid(player_config.MOUSE_EVENT_PATH)
                /\ IsValid(player_config.KEYBOARD_EVENT_PATH))
      /\ \A d \in { player_config.MOUSE_EVENT_PATH,
                     player_config.KEYBOARD_EVENT_PATH,
                     player_config.PHYSICAL_DEVICE_ID } :
           ~IsValid(d) => d \notin Range(cmd)
      /\ BuiltExe \in Range(cmd)

\* The mouse path is not a character device, the keyboard is valid and the
\* joystick path is absent; the sandbox is enabled.
C15_Witness ==
    /\ pc = "command_built"
    /\ ~profile.disable_bwrap
    /\ dev_stat[MousePath] = "file"
    /\ dev_stat[KeyboardPath] = "char"
    /\ player_config.PHYSICAL_DEVICE_ID = JoystickPath
    /\ dev_stat[JoystickPath] = "absent"
    /\ device_info.has_dedicated_keyboard
    /\ ~device_info.should_add_grab_flags
    /\ KeyboardPath \in Range(cmd)

\* The two synchronization defaults.
SyncKeys == { "PROTON_NO_ESYNC", "PROTON_NO_FSYNC" }

(* C16: in the environment of _prepare_environment every key of
   profile.env_vars has the override's value, whatever was inherited or
   computed for it; a synchronization default is "0" only for a non-native
   game and a key that was neither inherited nor overridden, and otherwise
   the key keeps the overriding or inherited value, or stays unset. *)
C16_OverridesWin ==
    pc = "environment_prepared" =>
      /\ \A k \in DOMAIN env_vars : k \in DOMAIN env /\ env[k] = env_vars[k]
      /\ \A k \in SyncKeys :
           IF k \in DOMAIN env_vars THEN env[k] = env_vars[k]
           ELSE IF k \in DOMAIN host_env THEN env[k] = host_env[k]
           ELSE IF profile.is_native THEN k \notin DOMAIN env
           ELSE env[k] = "0"

\* A non-native game: PATH, WINEPREFIX and one synchronization variable are
\* overridden, the other synchronization variable is inherited.
C16_Witness ==
    /\ pc = "environment_prepared"
    /\ ~profile.is_native
    /\ { "PATH", "WINEPREFIX", "PROTON_NO_ESYNC" } \subseteq DOMAIN env_vars
    /\ "PATH" \in DOMAIN host_env
    /\ "PROTON_NO_FSYNC" \in DOMAIN host_env \ DOMAIN env_vars
    /\ env["WINEPREFIX"] = "override"
    /\ env["PROTON_NO_FSYNC"] = "inherited"

(* C17: a process is spawned for an instance only when the mirrored
   executable exists, is a symbolic link and resolves to the true executable;
   a link to anything else fails the verification and nothing is spawned. *)
C17_Claim ==
    /\ pc = "registering" => symlinked_exe = "link_ok"
    /\ symlinked_exe \in { "absent", "file", "link_other", "link_broken" }
         => (pc = "aborted" /\ error = "FileNotFoundError")

\* Every directory of the install tree is a real directory of the mirror and
\* every file has a symlink to the original file.
FullyMirrored(m) ==
    /\ \A d \in InstallDirs : m[d] = "dir"
    /\ \A f \in InstallFiles : m[f] = "link_ok"

(* C18: the builder leaves as it is whatever already is at a mirror path, and
   called on a tree that is already mirrored it raises nothing, fails no link
   and changes nothing. *)
C18_MirrorIdempotent ==
    mirror_runs >= 1 =>
      /\ \A item \in InstallItems :
           mirror_before[item] # "absent" => mirror[item] = mirror_before[item]
      /\ FullyMirrored(mirror_before) =>
           (mirror = mirror_before /\ mirror_error = "none" /\ link_failed = {})

\* The second call of the builder found the tree fully mirrored.
C18_Witness ==
    /\ mirror_runs = 2
    /\ FullyMirrored(mirror_before)
    /\ mirror = mirror_before
    /\ mirror_error = "none"

(* C19 as stated, for the first call of the builder on an empty game_files
   directory: when the builder returns without error, every directory of the
   install tree is a real directory of the mirror and every regular file has
   a symlink to the original file. *)
C19_Claim ==
    (mirror_runs = 1 /\ mirror_error = "none" /\ mirror_before = empty_mirror)
      => FullyMirrored(mirror)

(* C19, amended: when the builder returns without error, every directory of
   the install tree is a directory of the mirror, a real one where the
   builder made it; a file whose mirror path was free has a symlink to the
   original file unless its link creation failed, in which case the path
   stays free and the files after it are mirrored all the same; a path that
   was taken is left as it was, so the builder never makes a copy. *)
C19_MirroredExceptSkipped ==
    (mirror_runs >= 1 /\ mirror_error = "none") =>
      /\ \A d \in InstallDirs :
           /\ mirror[d] \in { "dir", "link_dir" }
           /\ mirror_before[d] = "absent" => mirror[d] = "dir"
      /\ \A f \in InstallFiles :
           IF mirror_before[f] # "absent" THEN mirror[f] = mirror_before[f]
           ELSE IF f \in link_failed THEN mirror[f] = "absent"
           ELSE mirror[f] = "link_ok"
      /\ link_failed \subseteq { f \in InstallFiles : mirror_before[f] = "absent" }

\* On an empty game_files directory the link of readme.txt failed, and the
\* executable and the file of the directory were linked all the same.
C19_Witness ==
    /\ mirror_runs = 1
    /\ mirror_error = "none"
    /\ mirror_before = empty_mirror
    /\ link_failed = { "readme.txt" }
    /\ mirror["readme.txt"] = "absent"
    /\ mirror[ExePath] = "link_ok"
    /\ mirror["data"] = "dir"
    /\ mirror["data/assets.pak"] = "link_ok"

\* The directory and the log file that instance k is to own.
OwnPrefixDir ==
    << "PREFIX_BASE_DIR/game/instance_1", "PREFIX_BASE_DIR/game/instance_2",
       "PREFIX_BASE_DIR/game/instance_3", "PREFIX_BASE_DIR/game/instance_4" >>

OwnLogFile ==
    << "LOG_DIR/game_instance_1.log", "LOG_DIR/game_instance_2.log",
       "LOG_DIR/game_instance_3.log", "LOG_DIR/game_instance_4.log" >>

(* C20: two distinct created instances never have the same prefix directory
   or the same log file; the prefix directory of instance k is the prefix
   base of the game joined with instance_k and its log file is named after
   the game and k. *)
C20_ExclusiveDirectories ==
    /\ \A i, j \in 1..Len(instances) :
         i # j =>
           /\ instances[i].instance_num # instances[j].instance_num
           /\ instances[i].prefix_dir # instances[j].prefix_dir
           /\ instances[i].log_file # instances[j].log_file
    /\ \A i \in 1..Len(instances) :
         LET k == instances[i].instance_num
         IN  k <= Len(OwnPrefixDir) =>
               /\ instances[i].prefix_dir = OwnPrefixDir[k]
               /\ instances[i].log_file = OwnLogFile[k]

\* Three instances were created and the first has been spawned.
C20_Witness ==
    /\ Len(instances) = 3
    /\ instances[1].pid # 0
    /\ instances[3].prefix_dir = "PREFIX_BASE_DIR/game/instance_3"

(* C21: when the selection names no player of the profile, no instance is
   created and launch_instances returns without an error: no core list is
   computed, no launch is attempted, nothing is spawned and the registry is
   as it was. *)
C21_NoInstances ==
    (base_dirs /\ SelectedNums = {} /\ pc # "creating") =>
      /\ instances = << >>
      /\ pc \in { "monitoring", "finished" }
      /\ error = "none"
      /\ core_assignments = << >>
      /\ attempted = << >>
      /\ proc = << >>
      /\ pids = << >>
      /\ prefix_dirs = {}

\* The profile has two players and the selection names the third only;
\* launch_instances has returned.
C21_Witness ==
    /\ profile.player_count = 2
    /\ profile.selected_players = { 3 }
    /\ base_dirs
    /\ pc = "monitoring"
    /\ instances = << >>

(* C23: the registry of pids changes only in three ways: a pid is added by
   the registration that follows its successful spawn, and is removed by a
   poll that found the process gone or by terminate_all; at every step it
   has no duplicate and holds only pids that a spawn of this service
   returned. *)
C23_Claim ==
    [][ /\ \A p \in Range(pids') \ Range(pids) :
              /\ pc = "registering"
              /\ p = new_pid
              /\ pids' = Append(pids, p)
        /\ \A p \in Range(pids) \ Range(pids') :
              \/ pc = "poll_write" /\ pc' # "poll_write" /\ ~pid_exists(p)
              \/ pids' = << >> /\ p \in Range(last_kill')
        /\ NoDuplicates(pids')
        /\ Range(pids') \subseteq DOMAIN proc' ]_vars

(* C24: terminate_all leaves the registry empty whenever it runs, the gap
   between the read and the write-back of a poll included, and a pid that it
   removed is never in the registry again. *)
C24_Claim == Range(pids) \cap term_removed = {}

\* The host paths that the argv binds into the sandbox.
BoundPaths ==
    { cmd[j + 1] : j \in { k \in 1..(Len(cmd) - 2) :
                              cmd[k] = "--dev-bind" /\ cmd[k + 2] = cmd[k + 1] } }

GrabFlags == { "--grab", "--force-grab-cursor" }

(* C26: the exclusive-grab flags are in the argv only when the compositor is
   enabled and the resolution made by _build_command found both the
   pointing device and the keyboard valid; with the sandbox enabled both
   paths are then bound in the same argv, whatever the earlier resolution
   of the launch had found before the host changed. *)
C26_GrabMatchesBindings ==
    (pc = "command_built" /\ Range(cmd) \cap GrabFlags # {}) =>
      /\ profile.use_gamescope
      /\ IsValid(player_config.MOUSE_EVENT_PATH)
      /\ IsValid(player_config.KEYBOARD_EVENT_PATH)
      /\ device_info.should_add_grab_flags
      /\ ~profile.disable_bwrap =>
           { MousePath, KeyboardPath } \subseteq BoundPaths

\* The first resolution found the keyboard missing; it was plugged in before
\* _build_command ran, which grabs the input and binds both devices.
C26_Witness ==
    /\ pc = "command_built"
    /\ ~launch_device_info.should_add_grab_flags
    /\ launch_device_info.has_dedicated_mouse
    /\ profile.use_gamescope
    /\ ~profile.disable_bwrap
    /\ GrabFlags \subseteq Range(cmd)
    /\ { MousePath, KeyboardPath } \subseteq BoundPaths

(* C22: a validation of a path that does not exist on the host fails with
   ExecutableNotFoundError, whatever validations and filesystem changes came
   before. *)
C22_Claim ==
    \A path \in Paths : ~fs_exists[path] => ~check_path_exists(path)

(* C27: get_profile(k) returns a profile only when the latest set_profile(k)
   is less than the TTL old; no other operation of the cache lengthens the
   life of a cached profile. *)
C27_Claim ==
    \A k \in ProfileKeys :
        get_profile(k) # "None" =>
          /\ k \in DOMAIN profile_set_at
          /\ now - profile_set_at[k] < cache_ttl

(* C25: once monitor_and_wait is polling and every tracked process ends at
   some time, monitor_and_wait returns at some time. *)
C25_Claim == (pc = "monitoring") ~> (pc = "finished")

====
